---- MODULE Spec2Model ----
(***************************************************************************)
(* Model of the browser verification scripts of jules-scratch/verification *)
(*   verify_main_page_v2.py      run(): scan of ports_to_try               *)
(*   verify_main_page.py         run(): one attempt on port 5174           *)
(*   verify_dynamic_withdrawal.py run(playwright): panel screenshot        *)
(*   verify_fixes.py             test_screenshot(page)                     *)
(* One behaviour is one execution of one script.  Every call of the        *)
(* browser driver either returns or raises; the choice is nondeterministic.*)
(* Every call and every print is appended to log, in program order.        *)
(***************************************************************************)
EXTENDS Integers, Sequences, FiniteSets

VARIABLES
  script,        \* which script is executed: "v2", "main", "dyn" or "fixes"
  ports_to_try,  \* v2 line 4: the list scanned by the for loop
  idx,           \* position of the for loop in ports_to_try (attempt number)
  port,          \* the port of the current attempt (v2: the loop variable)
  pc,            \* the statement the script executes next
  playwright,    \* TRUE while a sync_playwright() context is entered
  launched,      \* number of browsers launched so far (session ids 1..launched)
  browser,       \* session bound to the local `browser` (0: unbound)
  page,          \* session owning the local `page` (0: unbound)
  open,          \* sessions launched and not yet successfully closed
  returning,     \* v2: `return` is pending while the finally clause runs
  file,          \* screenshot paths that exist on disk
  log            \* sequence of the calls and prints made so far

vars == <<script, ports_to_try, idx, port, pc, playwright, launched, browser,
          page, open, returning, file, log>>

\* Longest candidate list explored.  The list of v2 line 4 has 5 ports; the
\* loop body is the same for every port, and the lists explored are the
\* prefixes of that list of length 0..MaxPorts.
MaxPorts == 4

\* v2 line 4: [5173, 5174, 5175, 5176, 5177], and its prefixes.
FirstPort == 5173

PortList(n) == [i \in 1..n |-> FirstPort + i - 1]

\* verify_main_page.py line 8: http://localhost:5174
MainPort == 5174

\* verify_dynamic_withdrawal.py line 8: http://localhost:5173/
DynPort == 5173

\* verify_fixes.py line 8: http://localhost:5173
FixesPort == 5173

VerificationPng == "jules-scratch/verification/verification.png"

DynamicPng == "jules-scratch/verification/dynamic_withdrawal_ui.png"

Scripts == {"v2", "main", "dyn", "fixes"}

----------------------------------------------------------------------------
\* One entry of the log: the call `op` made in attempt idx for `port` on
\* session s, which returned (ok) or raised (~ok).
Event(op, s, ok) == [op |-> op, att |-> idx, port |-> port, sess |-> s, ok |-> ok]

Emit(op, s, ok) == log' = Append(log, Event(op, s, ok))

\* A driver call on the page that changes nothing but the driver: it returns
\* and control goes to `next`, or raises and control goes to `handler`
\* (the except clause, or out of the function when there is none).
PageCall(here, op, next, handler) ==
  /\ pc = here
  /\ \E ok \in BOOLEAN :
       /\ Emit(op, page, ok)
       /\ pc' = IF ok THEN next ELSE handler
  /\ UNCHANGED <<script, ports_to_try, idx, port, playwright, launched,
                 browser, page, open, returning, file>>

\* page.screenshot(path=...) / locator.screenshot(path=...): writes the file
\* when it returns.
ScreenshotCall(here, path, next, handler) ==
  /\ pc = here
  /\ \E ok \in BOOLEAN :
       /\ Emit("screenshot", page, ok)
       /\ file' = IF ok THEN file \cup {path} ELSE file
       /\ pc' = IF ok THEN next ELSE handler
  /\ UNCHANGED <<script, ports_to_try, idx, port, playwright, launched,
                 browser, page, open, returning>>

\* browser = p.chromium.launch(...): a new session is opened and bound.
LaunchCall(here, next, handler) ==
  /\ pc = here
  /\ \E ok \in BOOLEAN :
       IF ok
         THEN /\ launched' = launched + 1
              /\ browser' = launched + 1
              /\ open' = open \cup {launched + 1}
              /\ Emit("launch", launched + 1, TRUE)
              /\ pc' = next
         ELSE /\ Emit("launch", 0, FALSE)
              /\ pc' = handler
              /\ UNCHANGED <<launched, browser, open>>
  /\ UNCHANGED <<script, ports_to_try, idx, port, playwright, page,
                 returning, file>>

\* page = browser.new_page()
NewPageCall(here, next, handler) ==
  /\ pc = here
  /\ \E ok \in BOOLEAN :
       /\ Emit("new_page", browser, ok)
       /\ page' = IF ok THEN browser ELSE page
       /\ pc' = IF ok THEN next ELSE handler
  /\ UNCHANGED <<script, ports_to_try, idx, port, playwright, launched,
                 browser, open, returning, file>>

\* browser.close(): when it returns the session is closed (closing a closed
\* browser is a no-op); when it raises the session is left as it was.
CloseCall(here, next, handler) ==
  /\ pc = here
  /\ \E ok \in BOOLEAN :
       /\ Emit("close", browser, ok)
       /\ open' = IF ok THEN open \ {browser} ELSE open
       /\ pc' = IF ok THEN next ELSE handler
  /\ UNCHANGED <<script, ports_to_try, idx, port, playwright, launched,
                 browser, page, returning, file>>

\* print(...)
PrintCall(here, op, next) ==
  /\ pc = here
  /\ Emit(op, 0, TRUE)
  /\ pc' = next
  /\ UNCHANGED <<script, ports_to_try, idx, port, playwright, launched,
                 browser, page, open, returning, file>>

\* Leaving a `with sync_playwright()` block, normally or by an exception.
WithExit(here, next) ==
  /\ pc = here
  /\ playwright' = FALSE
  /\ pc' = next
  /\ UNCHANGED <<script, ports_to_try, idx, port, launched, browser, page,
                 open, returning, file, log>>

----------------------------------------------------------------------------
\* verify_main_page_v2.py

V2 == script = "v2"

\* V2_for as a loop that tests its condition after the body: the first
\* attempt is made before the list is looked at.
V2_for_TestAfterBody ==
  /\ script = "v2" /\ pc = "for"
  /\ IF idx < Len(ports_to_try) \/ idx = 0
       THEN /\ idx' = idx + 1
            /\ port' = IF idx < Len(ports_to_try) THEN ports_to_try[idx + 1]
                                                  ELSE FirstPort
            /\ playwright' = TRUE
            /\ pc' = "launch"
       ELSE /\ pc' = "print_failed"
            /\ UNCHANGED <<idx, port, playwright>>
  /\ UNCHANGED <<script, ports_to_try, launched, browser, page, open,
                 returning, file, log>>

\* line 5: for port in ports_to_try; line 6: with sync_playwright() as p
V2_for ==
  /\ V2 /\ pc = "for"
  /\ IF idx < Len(ports_to_try)
       THEN /\ idx' = idx + 1
            /\ port' = ports_to_try[idx + 1]
            /\ playwright' = TRUE
            /\ pc' = "launch"
       ELSE /\ pc' = "print_failed"
            /\ UNCHANGED <<idx, port, playwright>>
  /\ UNCHANGED <<script, ports_to_try, launched, browser, page, open,
                 returning, file, log>>

V2_launch == V2 /\ LaunchCall("launch", "new_page", "with_raise")

V2_new_page == V2 /\ NewPageCall("new_page", "print_trying", "with_raise")

V2_print_trying == V2 /\ PrintCall("print_trying", "print_trying", "goto")

V2_goto == V2 /\ PageCall("goto", "goto", "expect_heading", "except")

\* V2_expect_heading with the timeout of the heading wait swallowed.
V2_expect_heading_Swallowed ==
  V2 /\ PageCall("expect_heading", "expect_heading", "expect_button",
                 "expect_button")

\* line 13
V2_expect_heading ==
  V2 /\ PageCall("expect_heading", "expect_heading", "expect_button", "except")

\* V2_expect_button with the timeout of the button wait swallowed.
V2_expect_button_Swallowed ==
  V2 /\ PageCall("expect_button", "expect_button", "wait_for_timeout",
                 "wait_for_timeout")

V2_expect_button ==
  V2 /\ PageCall("expect_button", "expect_button", "wait_for_timeout", "except")

\* V2_wait_for_timeout with the screenshot call that follows it left out.
V2_wait_for_timeout_NoScreenshot ==
  V2 /\ PageCall("wait_for_timeout", "wait_for_timeout", "print_success",
                 "except")

V2_wait_for_timeout ==
  V2 /\ PageCall("wait_for_timeout", "wait_for_timeout", "screenshot", "except")

V2_screenshot ==
  V2 /\ ScreenshotCall("screenshot", VerificationPng, "print_success", "except")

V2_print_success == V2 /\ PrintCall("print_success", "print_success", "close")

\* line 21: browser.close() inside the try block
V2_close == V2 /\ CloseCall("close", "return", "except")

\* line 22: return; the finally clause runs before the function returns
V2_return ==
  /\ V2 /\ pc = "return"
  /\ returning' = TRUE
  /\ pc' = "finally"
  /\ UNCHANGED <<script, ports_to_try, idx, port, playwright, launched,
                 browser, page, open, file, log>>

\* lines 23-24: except Exception as e: print(Could not connect ...)
V2_except == V2 /\ PrintCall("except", "print_error", "finally")

\* V2_finally without the call of browser.close().
V2_finally_NoClose ==
  /\ V2 /\ pc = "finally"
  /\ pc' = "with_exit"
  /\ UNCHANGED <<script, ports_to_try, idx, port, playwright, launched,
                 browser, page, open, returning, file, log>>

\* lines 25-26: finally: browser.close()
V2_finally == V2 /\ CloseCall("finally", "with_exit", "with_raise")

\* V2_with_exit with the pending return of line 22 lost: the loop goes on.
V2_with_exit_NoReturn == V2 /\ WithExit("with_exit", "for")

\* end of the with block of line 6: return, or the next iteration
V2_with_exit == V2 /\ WithExit("with_exit", IF returning THEN "done" ELSE "for")

\* an exception leaves the with block and run()
V2_with_raise == V2 /\ WithExit("with_raise", "raised")

\* line 28
V2_print_failed == V2 /\ PrintCall("print_failed", "print_failed", "done")

V2_run ==
  \/ V2_for
  \/ V2_launch
  \/ V2_new_page
  \/ V2_print_trying
  \/ V2_goto
  \/ V2_expect_heading
  \/ V2_expect_button
  \/ V2_wait_for_timeout
  \/ V2_screenshot
  \/ V2_print_success
  \/ V2_close
  \/ V2_return
  \/ V2_except
  \/ V2_finally
  \/ V2_with_exit
  \/ V2_with_raise
  \/ V2_print_failed

----------------------------------------------------------------------------
\* verify_main_page.py

Main == script = "main"

\* line 4: with sync_playwright() as p
Main_with ==
  /\ Main /\ pc = "with"
  /\ playwright' = TRUE
  /\ pc' = "launch"
  /\ UNCHANGED <<script, ports_to_try, idx, port, launched, browser, page,
                 open, returning, file, log>>

Main_launch == Main /\ LaunchCall("launch", "new_page", "with_raise")

Main_new_page == Main /\ NewPageCall("new_page", "goto", "with_raise")

Main_goto == Main /\ PageCall("goto", "goto", "expect_heading", "except")

Main_expect_heading ==
  Main /\ PageCall("expect_heading", "expect_heading", "expect_button", "except")

Main_expect_button ==
  Main /\ PageCall("expect_button", "expect_button", "wait_for_timeout", "except")

Main_wait_for_timeout ==
  Main /\ PageCall("wait_for_timeout", "wait_for_timeout", "screenshot", "except")

Main_screenshot ==
  Main /\ ScreenshotCall("screenshot", VerificationPng, "print_success", "except")

Main_print_success == Main /\ PrintCall("print_success", "print_success", "finally")

\* lines 22-23
Main_except == Main /\ PrintCall("except", "print_error", "finally")

\* lines 24-25
Main_finally == Main /\ CloseCall("finally", "with_exit", "with_raise")

Main_with_exit == Main /\ WithExit("with_exit", "done")

Main_with_raise == Main /\ WithExit("with_raise", "raised")

Main_run ==
  \/ Main_with
  \/ Main_launch
  \/ Main_new_page
  \/ Main_goto
  \/ Main_expect_heading
  \/ Main_expect_button
  \/ Main_wait_for_timeout
  \/ Main_screenshot
  \/ Main_print_success
  \/ Main_except
  \/ Main_finally
  \/ Main_with_exit
  \/ Main_with_raise

----------------------------------------------------------------------------
\* verify_dynamic_withdrawal.py: no try block, every exception leaves run()

Dyn == script = "dyn"

\* line 30: with sync_playwright() as playwright
Dyn_with ==
  /\ Dyn /\ pc = "with"
  /\ playwright' = TRUE
  /\ pc' = "launch"
  /\ UNCHANGED <<script, ports_to_try, idx, port, launched, browser, page,
                 open, returning, file, log>>

Dyn_launch == Dyn /\ LaunchCall("launch", "new_page", "run_raised")

Dyn_new_page == Dyn /\ NewPageCall("new_page", "goto", "run_raised")

Dyn_goto == Dyn /\ PageCall("goto", "goto", "click_panel", "run_raised")

\* Dyn_click_panel with a failing click skipped silently.
Dyn_click_panel_Skipped ==
  Dyn /\ PageCall("click_panel", "click_panel", "click_radio", "click_radio")

\* lines 12-13
Dyn_click_panel ==
  Dyn /\ PageCall("click_panel", "click_panel", "click_radio", "run_raised")

\* lines 16-17
Dyn_click_radio ==
  Dyn /\ PageCall("click_radio", "click_radio", "expect_text", "run_raised")

\* Dyn_expect_text with the timeout of the visibility wait swallowed.
Dyn_expect_text_Swallowed ==
  Dyn /\ PageCall("expect_text", "expect_text", "screenshot", "screenshot")

\* lines 21-22
Dyn_expect_text ==
  Dyn /\ PageCall("expect_text", "expect_text", "screenshot", "run_raised")

\* lines 25-26
Dyn_screenshot ==
  Dyn /\ ScreenshotCall("screenshot", DynamicPng, "close", "run_raised")

\* line 28
Dyn_close == Dyn /\ CloseCall("close", "run_returned", "run_raised")

\* run() has returned: the with block of line 30 ends
Dyn_with_exit == Dyn /\ WithExit("run_returned", "done")

\* run() has raised: the exception leaves the with block of line 30
Dyn_with_raise == Dyn /\ WithExit("run_raised", "raised")

Dyn_run ==
  \/ Dyn_with
  \/ Dyn_launch
  \/ Dyn_new_page
  \/ Dyn_goto
  \/ Dyn_click_panel
  \/ Dyn_click_radio
  \/ Dyn_expect_text
  \/ Dyn_screenshot
  \/ Dyn_close
  \/ Dyn_with_exit
  \/ Dyn_with_raise

----------------------------------------------------------------------------
\* verify_fixes.py: test_screenshot(page), the page is supplied by the caller

Fixes == script = "fixes"

Fixes_goto == Fixes /\ PageCall("goto", "goto", "screenshot", "raised")

Fixes_screenshot ==
  Fixes /\ ScreenshotCall("screenshot", VerificationPng, "done", "raised")

Fixes_run ==
  \/ Fixes_goto
  \/ Fixes_screenshot

----------------------------------------------------------------------------
Init ==
  /\ script \in Scripts
  /\ ports_to_try \in IF script = "v2" THEN {PortList(n) : n \in 0..MaxPorts}
                                       ELSE {<<>>}
  /\ idx = IF script = "v2" THEN 0 ELSE 1
  /\ port = CASE script = "v2" -> 0
              [] script = "main" -> MainPort
              [] script = "dyn" -> DynPort
              [] OTHER -> FixesPort
  /\ pc = CASE script = "v2" -> "for"
            [] script = "fixes" -> "goto"
            [] OTHER -> "with"
  /\ playwright = FALSE
  /\ launched = IF script = "fixes" THEN 1 ELSE 0
  /\ browser = 0
  /\ page = IF script = "fixes" THEN 1 ELSE 0
  /\ open = IF script = "fixes" THEN {1} ELSE {}
  /\ returning = FALSE
  /\ file \in SUBSET {VerificationPng}
  /\ log = <<>>

Next ==
  \/ V2_run
  \/ Main_run
  \/ Dyn_run
  \/ Fixes_run

Spec == Init /\ [][Next]_vars

----------------------------------------------------------------------------
\* Reading the log

Idx == 1..Len(log)

\* positions of the calls `op` made in attempt a
Calls(op, a) == {i \in Idx : log[i].op = op /\ log[i].att = a}

\* positions of the calls `op` of attempt a that returned
Returned(op, a) == {i \in Calls(op, a) : log[i].ok}

\* positions of the calls `op` of attempt a that raised
Raised(op, a) == {i \in Calls(op, a) : ~log[i].ok}

IsLaunch(e) == e.op = "launch"

\* the ports for which a browser launch was attempted, in order of the calls
AttemptedPorts ==
  LET launches == SelectSeq(log, IsLaunch)
  IN  [i \in 1..Len(launches) |-> launches[i].port]

\* the steps of an attempt between new_page and the screenshot
StepOps == {"goto", "expect_heading", "expect_button", "wait_for_timeout",
            "screenshot"}

\* every driver call of an attempt
DriverOps == StepOps \cup {"launch", "new_page", "close"}

\* the run is over: run() has returned or an exception has left it
RunOver == pc \in {"done", "raised"}

\* attempt a wrote the screenshot file
Wrote(a) == Returned("screenshot", a) # {}

\* attempt a was reported as a success and not as a failure
Captured(a) == Calls("print_success", a) # {} /\ Calls("print_error", a) = {}

\* attempt a was reported as a failure
Failed(a) == Calls("print_error", a) # {}

----------------------------------------------------------------------------
\* C1: in verify_main_page_v2.py the ports for which an attempt is started
\* are, in order, a prefix of ports_to_try (list order, each port at most
\* once, no port skipped), and when the attempt for a port starts every
\* earlier port has been attempted and its failure has been reported.
C1_PortsInListOrder ==
  V2 =>
    /\ Len(AttemptedPorts) <= Len(ports_to_try)
    /\ AttemptedPorts = SubSeq(ports_to_try, 1, Len(AttemptedPorts))
    /\ \A i \in Idx :
         log[i].op = "launch" =>
           \A b \in 1..(log[i].att - 1) :
             /\ \E j \in 1..(i - 1) : log[j].op = "launch" /\ log[j].att = b
             /\ \E k \in 1..(i - 1) :
                  log[k].op = "print_error" /\ log[k].att = b

\* the third port is being attempted after two failed ports
C1_Witness ==
  /\ V2 /\ idx = 3 /\ pc = "goto"
  /\ Failed(1) /\ Failed(2)

\* C2: in verify_main_page.py and in every iteration of verify_main_page_v2.py
\* whose browser and page were obtained, once the attempt is over (on the
\* success path and on the path of every failing step; no call of close
\* itself raised) the browser was launched exactly once and browser.close()
\* was called exactly once.
C2_LaunchAndCloseOnce ==
  (script \in {"v2", "main"} /\ pc \in {"for", "done", "raised"}) =>
    \A a \in 1..idx :
      (Returned("new_page", a) # {} /\ Raised("close", a) = {}) =>
        /\ Cardinality(Calls("launch", a)) = 1
        /\ Cardinality(Calls("close", a)) = 1

\* C3: in verify_dynamic_withdrawal.py, when run() has returned or raised
\* after launching the browser, the browser has been closed.
C3_DynClosedOnEveryExit ==
  (Dyn /\ pc \in {"run_returned", "run_raised", "done", "raised"}
       /\ launched > 0) =>
    /\ open = {}
    /\ Returned("close", 1) # {}

\* C4: in verify_main_page_v2.py no browser is launched after a screenshot
\* has been captured, and nothing is attempted after the overall failure has
\* been reported.
C4_TerminalStates ==
  V2 =>
    /\ \A i, j \in Idx :
         (log[i].op = "screenshot" /\ log[i].ok /\ log[j].op = "launch")
           => j < i
    /\ \A i \in Idx : log[i].op = "print_failed" => i = Len(log)

\* C5: in verify_main_page_v2.py, when the run is over, every step of an
\* attempt that raised (navigation, a readiness wait, the settling delay,
\* the screenshot) was printed for its port and was followed by an attempt
\* for the next port, if there is one; the exception that left run, if any,
\* was not raised by such a step; and the overall failure was printed only
\* after every port had failed.
C5_StepFailureIsLocal ==
  (V2 /\ RunOver) =>
    /\ \A a \in 1..idx : \A op \in StepOps :
         Raised(op, a) # {} =>
           /\ Failed(a)
           /\ a < Len(ports_to_try) => Calls("launch", a + 1) # {}
    /\ pc = "raised" =>
         (~log[Len(log)].ok /\ log[Len(log)].op \notin StepOps)
    /\ Calls("print_failed", idx) # {} =>
         \A a \in 1..Len(ports_to_try) : Failed(a)

\* C6: in verify_main_page_v2.py, when the run is over, a driver call of an
\* attempt that raised (launch, new_page and close included) was followed by
\* an attempt for the next port, if there is one.
C6_AnyFailureIsLocal ==
  (V2 /\ RunOver) =>
    \A a \in 1..idx : \A op \in DriverOps :
      (Raised(op, a) # {} /\ a < Len(ports_to_try))
        => Calls("launch", a + 1) # {}

\* C7: in verify_main_page.py and verify_main_page_v2.py, when the run is
\* over, an attempt wrote the screenshot file if and only if it was reported
\* as a success and not as a failure.
C7_ScreenshotIffCaptured ==
  (script \in {"v2", "main"} /\ RunOver) =>
    \A a \in 1..idx : Wrote(a) <=> Captured(a)

\* C8: in verify_main_page_v2.py at most one session is open in every state
\* (so the session of one port is closed when the next one is launched), and
\* every page call of an attempt acts on the session launched in that attempt.
C8_OneSession ==
  V2 =>
    /\ Cardinality(open) <= 1
    /\ \A i \in Idx :
         log[i].op \in StepOps => log[i].sess \in 1..launched
    /\ \A l \in Idx :
         (log[l].op = "launch" /\ log[l].ok) =>
           \A i \in Idx :
             (log[i].op \in StepOps /\ log[i].sess = log[l].sess)
               => (log[i].port = log[l].port /\ l < i)

\* the second port is navigated to, on its own session
C8_Witness ==
  /\ V2 /\ idx = 2 /\ pc = "expect_heading"
  /\ open = {2}

\* C9: with an empty ports_to_try, verify_main_page_v2.py makes no driver
\* call at all and ends having printed the overall failure, and only that.
C9_EmptyList ==
  (V2 /\ ports_to_try = <<>>) =>
    /\ launched = 0 /\ open = {}
    /\ \A i \in Idx : log[i].op \notin DriverOps
    /\ pc \in {"for", "print_failed", "done"}
    /\ pc = "done" => (Len(log) = 1 /\ log[1].op = "print_failed")

C9_Witness == V2 /\ ports_to_try = <<>> /\ pc = "done"

\* C10: in verify_main_page.py and verify_main_page_v2.py the wait for the
\* enabled button of an attempt is preceded by a successful wait for the
\* visible heading in the same attempt, and an attempt whose heading wait
\* timed out never evaluates the button condition.
C10_HeadingBeforeButton ==
  script \in {"v2", "main"} =>
    \A i \in Idx :
      /\ log[i].op = "expect_button" =>
           \E h \in 1..(i - 1) :
             /\ log[h].op = "expect_heading" /\ log[h].ok
             /\ log[h].att = log[i].att
      /\ (log[i].op = "expect_heading" /\ ~log[i].ok) =>
           \A j \in Idx :
             ~(log[j].op = "expect_button" /\ log[j].att = log[i].att)

\* the heading wait of the first port timed out and the second port got as
\* far as the button wait
C10_Witness ==
  /\ V2 /\ idx = 2
  /\ Raised("expect_heading", 1) # {}
  /\ pc = "wait_for_timeout"

----------------------------------------------------------------------------
\* the readiness waits and the interactions of the scripts
WaitOps == {"expect_heading", "expect_button", "expect_text"}

ClickOps == {"click_panel", "click_radio"}

\* the steps of one Session Runner invocation, in the order of the source
DeclaredSteps ==
  CASE script \in {"v2", "main"} ->
         <<"goto", "expect_heading", "expect_button", "wait_for_timeout",
           "screenshot">>
    [] script = "dyn" ->
         <<"goto", "click_panel", "click_radio", "expect_text", "screenshot">>
    [] OTHER -> <<"goto", "screenshot">>

IsStep(e) == \E k \in DOMAIN DeclaredSteps : DeclaredSteps[k] = e.op

\* C11 as stated: in every invocation of every script no click is executed
\* before every readiness wait of the invocation has succeeded, and no
\* readiness wait is executed after a click.
C11_WaitsBeforeInteractions ==
  \A i, j \in Idx :
    (log[i].op \in ClickOps /\ log[j].op \in WaitOps
       /\ log[i].att = log[j].att)
      => (j < i /\ log[j].ok)

\* C11 amended: in every invocation of every script the steps are executed
\* in the order of the source, each one only after the step before it has
\* returned: navigation first and the screenshot last, the heading wait then
\* the button wait in verify_main_page(_v2).py, and in
\* verify_dynamic_withdrawal.py the panel click, the radio click and then
\* the readiness wait for the panel text.
C11_DeclaredOrder ==
  \A i \in Idx :
    IsStep(log[i]) =>
      \E k \in DOMAIN DeclaredSteps :
        /\ log[i].op = DeclaredSteps[k]
        /\ k = 1 =>
             \A j \in 1..(i - 1) : ~(IsStep(log[j]) /\ log[j].att = log[i].att)
        /\ k > 1 =>
             /\ log[i - 1].op = DeclaredSteps[k - 1]
             /\ log[i - 1].att = log[i].att
             /\ log[i - 1].ok

\* the readiness wait of verify_dynamic_withdrawal.py has returned, after
\* the two clicks
C11_Witness ==
  /\ Dyn /\ pc = "screenshot"
  /\ Returned("click_radio", 1) # {} /\ Returned("expect_text", 1) # {}

----------------------------------------------------------------------------
\* the path the running script writes its screenshot to
ScreenshotPath == IF script = "dyn" THEN DynamicPng ELSE VerificationPng

\* navigation, the readiness waits and the interactions of the running script
ReadinessSteps ==
  {DeclaredSteps[k] : k \in DOMAIN DeclaredSteps}
    \cap ({"goto"} \cup WaitOps \cup ClickOps)

\* in attempt a navigation succeeded, every readiness condition was
\* satisfied and every interaction succeeded
Ready(a) == \A op \in ReadinessSteps : Returned(op, a) # {}

\* the settling delay of attempt a, in the scripts that have one, returned
Settled(a) ==
  script \in {"v2", "main"} => Returned("wait_for_timeout", a) # {}

\* C12 as stated: when the run is over, for every attempt in which
\* navigation succeeded, every readiness condition was satisfied and every
\* interaction succeeded, the screenshot file exists at the configured path.
C12_ReadyImpliesFile ==
  RunOver =>
    \A a \in 1..idx : Ready(a) => ScreenshotPath \in file

\* C12 amended: when the run is over, for every attempt in which navigation
\* succeeded, every readiness condition was satisfied, every interaction
\* succeeded and the settling delay (where there is one) returned, the
\* screenshot call was made in that attempt; and if that call returned, the
\* screenshot file exists at the configured path.
C12_ReadyImpliesScreenshotCall ==
  RunOver =>
    \A a \in 1..idx :
      (Ready(a) /\ Settled(a)) =>
        /\ Calls("screenshot", a) # {}
        /\ Wrote(a) => ScreenshotPath \in file

\* a run of verify_main_page_v2.py is over whose second attempt went through
\* every step and wrote the file
C12_Witness ==
  /\ V2 /\ RunOver /\ idx = 2
  /\ Ready(2) /\ Settled(2) /\ Wrote(2)
  /\ ScreenshotPath \in file

----------------------------------------------------------------------------
\* C13: in verify_main_page.py and verify_main_page_v2.py, whenever the
\* failure of an attempt is printed, browser.close() has already been called
\* for that attempt.
C13_CloseBeforeReport ==
  script \in {"v2", "main"} =>
    \A i \in Idx :
      log[i].op = "print_error" =>
        \E c \in 1..(i - 1) : log[c].op = "close" /\ log[c].att = log[i].att

----------------------------------------------------------------------------
\* the orchestrator states of verify_main_page_v2.py
Succeeded == V2 /\ pc = "done" /\ returning

Exhausted == V2 /\ pc = "done" /\ ~returning /\ Calls("print_failed", idx) # {}

\* C14: every driver call returns or raises, so a run of
\* verify_main_page_v2.py always goes on until nothing is left to execute;
\* the state in which it has stopped is Succeeded or Exhausted, with no
\* session left open.
C14_StopsSucceededOrExhausted ==
  (V2 /\ ~ENABLED Next) => ((Succeeded \/ Exhausted) /\ open = {})

----------------------------------------------------------------------------
----------------------------------------------------------------------------
\* positions of the screenshot calls of the run that returned
Captures == {i \in Idx : log[i].op = "screenshot" /\ log[i].ok}

\* C16: when a run of verify_main_page_v2.py has ended in Succeeded, exactly
\* one screenshot capture was performed in the whole run, by the attempt that
\* succeeded, and no attempt reported as failed wrote a screenshot.
C16_OneCaptureOnSuccess ==
  Succeeded =>
    /\ Cardinality(Captures) = 1
    /\ \A i \in Captures : log[i].att = idx
    /\ \A a \in 1..idx : Failed(a) => ~Wrote(a)

----------------------------------------------------------------------------
\* some attempt printed the success message
SuccessPrinted == \E i \in Idx : log[i].op = "print_success"

\* the overall failure message was printed
FailurePrinted == \E i \in Idx : log[i].op = "print_failed"

\* C17: when a run of verify_main_page_v2.py is over, the overall failure
\* message has been printed if and only if every port of the list was
\* attempted and no attempt printed the success message; and the success
\* message and the overall failure message are never both printed.
C17_FailureMessageIffExhausted ==
  V2 =>
    /\ ~(SuccessPrinted /\ FailurePrinted)
    /\ RunOver =>
         (FailurePrinted <=>
            (/\ \A a \in 1..Len(ports_to_try) : Calls("launch", a) # {}
             /\ ~SuccessPrinted))

\* C18: in verify_main_page_v2.py, once an attempt is over, exactly one of
\* the success message and the 'Could not connect to port' message has been
\* printed for its port.
C18_OneReportPerAttempt ==
  (V2 /\ pc \in {"for", "print_failed", "done", "raised"}) =>
    \A a \in 1..idx :
      Calls("launch", a) # {} =>
        (Calls("print_success", a) # {} <=> Calls("print_error", a) = {})

\* C19: in verify_main_page.py and verify_main_page_v2.py the settling delay
\* of an attempt is executed only after the heading wait and the button wait
\* of that attempt have returned, and the screenshot only after the delay
\* has returned; an attempt in which navigation or a readiness wait raised
\* executes neither the delay nor the screenshot.
C19_DelayThenScreenshot ==
  script \in {"v2", "main"} =>
    \A i \in Idx :
      /\ log[i].op = "wait_for_timeout" =>
           \E h, b \in 1..(i - 1) :
             /\ log[h].op = "expect_heading" /\ log[h].ok
             /\ log[b].op = "expect_button" /\ log[b].ok
             /\ log[h].att = log[i].att /\ log[b].att = log[i].att
      /\ log[i].op = "screenshot" =>
           \E d \in 1..(i - 1) :
             /\ log[d].op = "wait_for_timeout" /\ log[d].ok
             /\ log[d].att = log[i].att
      /\ (log[i].op \in {"goto", "expect_heading", "expect_button"}
            /\ ~log[i].ok) =>
           \A j \in Idx :
             ~(log[j].op \in {"wait_for_timeout", "screenshot"}
                 /\ log[j].att = log[i].att)

\* the button wait of the first port timed out and the second port has
\* passed its settling delay and taken the screenshot
C19_Witness ==
  /\ V2 /\ idx = 2
  /\ Raised("expect_button", 1) # {}
  /\ Returned("wait_for_timeout", 2) # {}
  /\ Wrote(2)

====
